---------------------------- MODULE Spec2Model ----------------------------
(***************************************************************************)
(* A model of src/app.py, the "Discussion Finding & Summary Checker":      *)
(* the row parser, the reference resolver, the document fetcher, the       *)
(* section locator, the oracle-response parser and the Evaluate handler.   *)
(*                                                                         *)
(* Text is a sequence of one-character strings, bytes likewise, so that    *)
(* trimming, lower-casing, substring search and the regular expressions    *)
(* of the source are computed character by character.                     *)
(***************************************************************************)
EXTENDS Integers, Sequences, FiniteSets, TLC

VARIABLES
    pc,            \* position of the script or handler in the current run
    client,        \* the OpenAI client (line 120): "None" without an API key
    paste,         \* st.text_area value (line 373)
    manual_url,    \* st.text_input value (line 381)
    uploaded_pdf,  \* st.file_uploader value (line 378): None or the upload
    cells,         \* cells returned by split_excel_row (line 383)
    warnings,      \* warnings returned by split_excel_row (line 383)
    pdf_url,       \* the resolved URL (lines 390-397)
    url_in,        \* the URL first handed to normalize_sharepoint_download_url
    url,           \* the URL after the normalisations applied so far
    napplied,      \* how many times the normalisation was applied
    response,      \* what requests.get produced (line 194)
    fetched,       \* what download_pdf_bytes returned or raised (line 446)
    pdf_bytes,     \* the document bytes (lines 439, 446)
    pdf_ref,       \* the document label handed to the oracle (lines 440, 443)
    full_text,     \* the extracted text (line 460)
    discussion,    \* the excerpt (lines 470-472)
    raw_resp,      \* resp.choices[0].message.content (line 364)
    result,        \* what llm_grade returned (line 476)
    fetches,       \* the URLs requested over the network, in order
    oracle_calls,  \* the requests sent to the oracle, in order
    steps,         \* the steps the Evaluate handler has run, in order
    shown          \* what the Evaluate handler has displayed, in order

vars == << pc, client, paste, manual_url, uploaded_pdf, cells, warnings, pdf_url,
           url_in, url, napplied, response, fetched, pdf_bytes, pdf_ref,
           full_text, discussion, raw_resp, result, fetches, oracle_calls,
           steps, shown >>

\* The value of a variable the current run has not set.
Idle == "idle"

-----------------------------------------------------------------------------
(* Text helpers: Python's str methods on sequences of characters.          *)

Min(a, b) == IF a < b THEN a ELSE b

\* The characters str.strip() removes and the pattern \s matches.
Whitespace == {" ", "\t", "\n", "\r", "\f"}

IsSpace(c) == c \in Whitespace

\* (c or "").strip() is empty: every character is whitespace.
IsBlank(s) == \A i \in 1..Len(s) : IsSpace(s[i])

\* s.strip(): from the first to the last character that is not whitespace.
Strip(s) ==
    IF IsBlank(s) THEN << >>
    ELSE LET first == CHOOSE i \in 1..Len(s) :
                          /\ ~IsSpace(s[i])
                          /\ \A j \in 1..(i - 1) : IsSpace(s[j])
             last  == CHOOSE i \in 1..Len(s) :
                          /\ ~IsSpace(s[i])
                          /\ \A j \in (i + 1)..Len(s) : IsSpace(s[j])
         IN  SubSeq(s, first, last)

\* s[:n]
Prefix(s, n) == SubSeq(s, 1, Min(n, Len(s)))

\* w occurs in s starting at the 1-based position i.
MatchAt(s, i, w) ==
    /\ i >= 1
    /\ i + Len(w) - 1 <= Len(s)
    /\ \A k \in 1..Len(w) : s[i + k - 1] = w[k]

\* s.startswith(w)
StartsWith(s, w) == MatchAt(s, 1, w)

\* w in s
Contains(s, w) == \E i \in 1..(Len(s) - Len(w) + 1) : MatchAt(s, i, w)

\* All sequences over S of length at most n.
RECURSIVE SeqsUpTo(_, _)
SeqsUpTo(S, n) ==
    IF n = 0 THEN { << >> }
    ELSE LET shorter == SeqsUpTo(S, n - 1)
         IN  shorter \cup { Append(s, c) : s \in { t \in shorter : Len(t) = n - 1 }, c \in S }

\* The concatenation of a sequence of sequences.
RECURSIVE Concat(_)
Concat(ss) == IF ss = << >> THEN << >> ELSE Head(ss) \o Concat(Tail(ss))

\* sep.join(ss)
RECURSIVE Join(_, _)
Join(ss, sep) ==
    IF ss = << >> THEN << >>
    ELSE IF Len(ss) = 1 THEN Head(ss)
    ELSE Head(ss) \o sep \o Join(Tail(ss), sep)

\* n copies of the character c.
Fill(c, n) == [i \in 1..n |-> c]

-----------------------------------------------------------------------------
(* str.lower().  The characters of the model are ASCII letters, for which  *)
(* lower() maps one character to one, and U+0130 (capital I with dot       *)
(* above, written "I." here), which lower() maps to the two characters     *)
(* "i" and U+0307 (combining dot above, written "." + "^" = ".^" here).    *)

IDot == "I."

CombiningDot == ".^"

UpperCase == << "A", "B", "C", "D", "E", "F", "G", "H", "I", "J", "K", "L", "M",
                "N", "O", "P", "Q", "R", "S", "T", "U", "V", "W", "X", "Y", "Z" >>

LowerCase == << "a", "b", "c", "d", "e", "f", "g", "h", "i", "j", "k", "l", "m",
                "n", "o", "p", "q", "r", "s", "t", "u", "v", "w", "x", "y", "z" >>

LowerChar(c) ==
    IF \E k \in 1..26 : UpperCase[k] = c
    THEN LowerCase[CHOOSE k \in 1..26 : UpperCase[k] = c]
    ELSE c

\* s.lower(): every U+0130 becomes two characters, so the result is longer
\* than s by the number of U+0130 in s and later characters move right.
Lower(s) ==
    LET dots   == { i \in 1..Len(s) : s[i] = IDot }
        starts == { q + Cardinality({ r \in dots : r < q }) : q \in dots }
        lowered ==
            IF dots = {} THEN [j \in 1..Len(s) |-> LowerChar(s[j])]
            ELSE [j \in 1..(Len(s) + Cardinality(dots)) |->
                    LET i == j - Cardinality({ p \in starts : p < j })
                    IN  IF s[i] = IDot
                        THEN (IF j \in starts THEN "i" ELSE CombiningDot)
                        ELSE LowerChar(s[i])]
    IN  SubSeq(lowered, 1, Len(lowered))

\* bytes.lower(): ASCII letters only, one byte to one byte.
LowerBytes(b) ==
    LET lowered == [j \in 1..Len(b) |-> LowerChar(b[j])]
    IN  SubSeq(lowered, 1, Len(lowered))

-----------------------------------------------------------------------------
(* csv.reader(io.StringIO(text), delimiter="\t"): the reader of CPython's  *)
(* _csv module under the default dialect (quotechar '"', doublequote,      *)
(* no escapechar, not strict).  io.StringIO yields the lines of the text,  *)
(* each ending at "\n"; the reader feeds their characters, and an          *)
(* end-of-line mark after each line, to a state machine.  The text area    *)
(* normalises line breaks to "\n", so a paste holds no bare "\r".          *)

EOL == "EOL"

CsvStart == [state |-> "START_RECORD", field |-> << >>, fields |-> << >>, rows |-> << >>]

CsvSaveField(st, next) ==
    [st EXCEPT !.state = next, !.field = << >>, !.fields = Append(st.fields, st.field)]

CsvAddChar(st, c, next) ==
    [st EXCEPT !.state = next, !.field = Append(st.field, c)]

CsvGoto(st, next) == [st EXCEPT !.state = next]

\* parse_process_char in the state s0.
CsvDispatch(st, c, s0) ==
    CASE s0 = "START_RECORD" ->
             IF c = EOL THEN st ELSE CsvGoto(st, "EAT_CRNL")
      [] s0 = "START_FIELD" ->
             IF c = "\n" THEN CsvSaveField(st, "EAT_CRNL")
             ELSE IF c = EOL THEN CsvSaveField(st, "START_RECORD")
             ELSE IF c = "\"" THEN CsvGoto(st, "IN_QUOTED_FIELD")
             ELSE IF c = "\t" THEN CsvSaveField(st, "START_FIELD")
             ELSE CsvAddChar(st, c, "IN_FIELD")
      [] s0 = "IN_FIELD" ->
             IF c = "\n" THEN CsvSaveField(st, "EAT_CRNL")
             ELSE IF c = EOL THEN CsvSaveField(st, "START_RECORD")
             ELSE IF c = "\t" THEN CsvSaveField(st, "START_FIELD")
             ELSE CsvAddChar(st, c, "IN_FIELD")
      [] s0 = "IN_QUOTED_FIELD" ->
             IF c = EOL THEN st
             ELSE IF c = "\"" THEN CsvGoto(st, "QUOTE_IN_QUOTED_FIELD")
             ELSE CsvAddChar(st, c, "IN_QUOTED_FIELD")
      [] s0 = "QUOTE_IN_QUOTED_FIELD" ->
             IF c = "\"" THEN CsvAddChar(st, c, "IN_QUOTED_FIELD")
             ELSE IF c = "\t" THEN CsvSaveField(st, "START_FIELD")
             ELSE IF c = "\n" THEN CsvSaveField(st, "EAT_CRNL")
             ELSE IF c = EOL THEN CsvSaveField(st, "START_RECORD")
             ELSE CsvAddChar(st, c, "IN_FIELD")
      [] s0 = "EAT_CRNL" ->
             IF c = EOL THEN CsvGoto(st, "START_RECORD") ELSE st

\* parse_process_char: START_RECORD falls through to START_FIELD for a
\* character that ends no line.
CsvStep(st, c) ==
    CsvDispatch(st, c, IF st.state = "START_RECORD" /\ c \notin {EOL, "\n"}
                       THEN "START_FIELD" ELSE st.state)

\* The end-of-line mark, fed after the last character of a line.
CsvEndLine(st, at_end) == IF at_end THEN CsvStep(st, EOL) ELSE st

\* Reader_iternext returns the row when the line leaves the reader at the
\* start of a record.
CsvReturnRow(st, at_end) ==
    IF at_end /\ st.state = "START_RECORD"
    THEN [st EXCEPT !.fields = << >>, !.rows = Append(st.rows, st.fields)]
    ELSE st

\* One character of the text, and the end-of-line mark when it ends a line.
CsvFeed(st, text, i) ==
    CsvReturnRow(CsvEndLine(CsvStep(st, text[i]), text[i] = "\n" \/ i = Len(text)),
                 text[i] = "\n" \/ i = Len(text))

\* The reader's state after the characters lo..hi of the text, computed by
\* halves with the state between them evaluated first.
RECURSIVE CsvRun(_, _, _, _)
CsvRun(st, text, lo, hi) ==
    IF lo > hi THEN st
    ELSE IF lo = hi THEN CsvFeed(st, text, lo)
    ELSE CHOOSE end \in
             { CsvRun(mid, text, (lo + hi) \div 2 + 1, hi) :
                   mid \in { CsvRun(st, text, lo, (lo + hi) \div 2) } } : TRUE

\* At the end of the text a field still open is saved and its row returned.
CsvFinish(st) ==
    IF st.field # << >> \/ st.state = "IN_QUOTED_FIELD"
    THEN Append(st.rows, Append(st.fields, st.field))
    ELSE st.rows

\* list(csv.reader(io.StringIO(text), delimiter="\t"))
CsvRows(text) == CsvFinish(CsvRun(CsvStart, text, 1, Len(text)))

-----------------------------------------------------------------------------
(* split_excel_row                                                         *)

NCells == 6

\* any((c or "").strip() for c in r)
HasText(r) == \E k \in 1..Len(r) : ~IsBlank(r[k])

\* rows = [r for r in reader if any(...)]   (line 154)
NonBlankRows(rs) == SelectSeq(rs, HasText)

RowsWarning(n) == << "Detected ", n, " rows pasted. Using the first row only." >>

ColumnsWarning(n) == << "Detected ", n, " columns; using the first 6." >>

\* Lines 156-158.
RowsWarnings(rows) ==
    IF Len(rows) > 1 THEN << RowsWarning(Len(rows)) >> ELSE << >>

\* The same warning counting the rows that are not used.
RowsWarningsDiscarded(rows) ==
    IF Len(rows) > 1 THEN << RowsWarning(Len(rows) - 1) >> ELSE << >>

\* Lines 160-161: the first row, its cells stripped.
FirstRow(rows) ==
    IF rows # << >> THEN [k \in 1..Len(rows[1]) |-> Strip(rows[1][k])] ELSE << >>

\* Lines 163-164.
Pad(row) ==
    IF Len(row) < NCells THEN row \o [k \in 1..(NCells - Len(row)) |-> << >>] ELSE row

\* Lines 165-169.
Cut(row, warnings0) ==
    IF Len(row) > NCells
    THEN [row |-> SubSeq(row, 1, NCells),
          warnings |-> Append(warnings0, ColumnsWarning(Len(row)))]
    ELSE [row |-> row, warnings |-> warnings0]

\* Lines 156-169 for the rows read.
SplitRows(rows) == Cut(Pad(FirstRow(rows)), RowsWarnings(rows))

\* The same without the cut of a long row.
SplitRowsUncut(rows) == [row |-> Pad(FirstRow(rows)), warnings |-> RowsWarnings(rows)]

\* The same with the rows warning counting the rows that are not used.
SplitRowsDiscarded(rows) == Cut(Pad(FirstRow(rows)), RowsWarningsDiscarded(rows))

\* The function without the cut of a long row.
split_excel_row_uncut(text) ==
    IF text = << >> THEN [row |-> [k \in 1..NCells |-> << >>], warnings |-> << >>]
    ELSE SplitRowsUncut(NonBlankRows(CsvRows(text)))

\* The function with the rows warning counting the rows that are not used.
split_excel_row_discarded(text) ==
    IF text = << >> THEN [row |-> [k \in 1..NCells |-> << >>], warnings |-> << >>]
    ELSE SplitRowsDiscarded(NonBlankRows(CsvRows(text)))

split_excel_row(text) ==
    IF text = << >> THEN [row |-> [k \in 1..NCells |-> << >>], warnings |-> << >>]
    ELSE SplitRows(NonBlankRows(CsvRows(text)))

-----------------------------------------------------------------------------
(* URL detection (lines 126-142)                                           *)

S_http == << "h", "t", "t", "p" >>

S_http_scheme == << "h", "t", "t", "p", ":", "/", "/" >>

S_https_scheme == << "h", "t", "t", "p", "s", ":", "/", "/" >>

S_colon_slashes == << ":", "/", "/" >>

looks_like_url(s) ==
    IF s = << >> THEN FALSE
    ELSE LET l == Lower(Strip(s))
         IN  StartsWith(l, S_http_scheme) \/ StartsWith(l, S_https_scheme)

\* The class [^\s<>\]] of URL_RE.
IsUrlChar(c) == ~IsSpace(c) /\ c \notin {"<", ">", "]"}

\* re.IGNORECASE comparison of the text with a lower-case ASCII word at i.
MatchAtNoCase(s, i, w) ==
    /\ i >= 1
    /\ i + Len(w) - 1 <= Len(s)
    /\ \A k \in 1..Len(w) : LowerChar(s[i + k - 1]) = w[k]

\* The position after the scheme when URL_RE matches at i, else 0:
\* "http", an optional "s", "://" and at least one URL character.
UrlBodyStart(s, i) ==
    IF ~MatchAtNoCase(s, i, S_http) THEN 0
    ELSE LET j == IF MatchAtNoCase(s, i + 4, << "s" >>) /\ MatchAt(s, i + 5, S_colon_slashes)
                  THEN i + 5
                  ELSE i + 4
         IN  IF MatchAt(s, j, S_colon_slashes) /\ j + 3 <= Len(s) /\ IsUrlChar(s[j + 3])
             THEN j + 3
             ELSE 0

\* The last position of the greedy run [^\s<>\]]+ that starts at i.
RECURSIVE UrlRunEnd(_, _)
UrlRunEnd(s, i) ==
    IF i + 1 <= Len(s) /\ IsUrlChar(s[i + 1]) THEN UrlRunEnd(s, i + 1) ELSE i

\* The characters url.rstrip(").,;:!?\"'") removes.
TrailingPunctuation == {")", ".", ",", ";", ":", "!", "?", "\"", "'"}

RECURSIVE RStripPunctuation(_)
RStripPunctuation(s) ==
    IF s # << >> /\ s[Len(s)] \in TrailingPunctuation
    THEN RStripPunctuation(SubSeq(s, 1, Len(s) - 1))
    ELSE s

find_first_url_anywhere(text) ==
    IF text = << >> THEN << >>
    ELSE LET hits == { i \in 1..Len(text) : UrlBodyStart(text, i) # 0 }
         IN  IF hits = {} THEN << >>
             ELSE LET i == CHOOSE h \in hits : \A g \in hits : h <= g
                      m == SubSeq(text, i, UrlRunEnd(text, UrlBodyStart(text, i)))
                  IN  RStripPunctuation(Strip(m))

-----------------------------------------------------------------------------
(* normalize_sharepoint_download_url (lines 174-185)                       *)

S_sharepoint == << "s", "h", "a", "r", "e", "p", "o", "i", "n", "t", ".", "c", "o", "m" >>

S_onedrive == << "o", "n", "e", "d", "r", "i", "v", "e" >>

S_download == << "d", "o", "w", "n", "l", "o", "a", "d", "=", "1" >>

S_q_download == << "?", "d", "o", "w", "n", "l", "o", "a", "d", "=", "1" >>

S_amp_download == << "&", "d", "o", "w", "n", "l", "o", "a", "d", "=", "1" >>

\* The same function with the "download=1" test made on the URL as given,
\* not on its lower-cased form.
normalize_case_sensitive(u) ==
    IF u = << >> THEN u
    ELSE IF (Contains(Lower(u), S_sharepoint) \/ Contains(Lower(u), S_onedrive))
            /\ ~Contains(u, S_download)
         THEN u \o (IF Contains(u, << "?" >>) THEN S_amp_download ELSE S_q_download)
         ELSE u

normalize_sharepoint_download_url(u) ==
    IF u = << >> THEN u
    ELSE LET lower == Lower(u)
         IN  IF (Contains(lower, S_sharepoint) \/ Contains(lower, S_onedrive))
                /\ ~Contains(lower, S_download)
             THEN u \o (IF Contains(u, << "?" >>) THEN S_amp_download ELSE S_q_download)
             ELSE u

-----------------------------------------------------------------------------
(* download_pdf_bytes (lines 190-216).  The response is what requests.get  *)
(* produced for the normalised URL: that it raised (timeout, DNS,          *)
(* connection), or else the final status, the Content-Type header (None    *)
(* when absent) and the body.                                              *)

\* Python's None where a text or bytes may stand: a sequence that is no text,
\* its one element not being a character.
None == << "None" >>

S_pdf_magic == << "%", "P", "D", "F" >>

S_pdf == << "p", "d", "f" >>

S_html_tag == << "<", "h", "t", "m", "l" >>

S_doctype == << "<", "!", "d", "o", "c", "t", "y", "p", "e", " ", "h", "t", "m", "l" >>

S_unknown == << "u", "n", "k", "n", "o", "w", "n" >>

MagicLen == 4

HeadLen == 300

\* Response.raise_for_status of the requests library raises HTTPError for
\* the client and server error statuses and for no other status.
RaisesForStatus(status) == status >= 400 /\ status < 600

Returned(content) == [kind |-> "return", content |-> content]

Raised(exc, msg) == [kind |-> "raise", exc |-> exc, msg |-> msg]

HtmlPageMessage ==
    << "The link returned an HTML page (SharePoint viewer/login), not a direct PDF download. ",
       "Try using a Share link to the file (not a folder), and the app will append download=1 automatically." >>

NotPdfMessage(ct) ==
    << "Link did not return a PDF (Content-Type: ", IF ct # << >> THEN ct ELSE S_unknown, ")." >>

\* (r.headers.get("Content-Type") or "").lower()
DeclaredType(r) == IF r.ct = None THEN << >> ELSE Lower(r.ct)

LooksLikeHtml(content) ==
    LET head == LowerBytes(Prefix(content, HeadLen))
    IN  Contains(head, S_html_tag) \/ Contains(head, S_doctype)

\* The same function with the HTML openers looked for in the body as sent,
\* not in its lower-cased head.
download_html_case_sensitive(r) ==
    IF r.raised THEN Raised("RequestException", << >>)
    ELSE IF RaisesForStatus(r.status) THEN Raised("HTTPError", << r.status >>)
    ELSE IF Prefix(r.content, MagicLen) = S_pdf_magic THEN Returned(r.content)
    ELSE IF Contains(DeclaredType(r), S_pdf) THEN Returned(r.content)
    ELSE IF \/ Contains(Prefix(r.content, HeadLen), S_html_tag)
            \/ Contains(Prefix(r.content, HeadLen), S_doctype)
         THEN Raised("ValueError", HtmlPageMessage)
    ELSE Raised("ValueError", NotPdfMessage(DeclaredType(r)))

download_pdf_bytes(r) ==
    IF r.raised THEN Raised("RequestException", << >>)
    ELSE IF RaisesForStatus(r.status) THEN Raised("HTTPError", << r.status >>)
    ELSE LET content == r.content
             ct      == DeclaredType(r)
         IN  IF Prefix(content, MagicLen) = S_pdf_magic THEN Returned(content)
             ELSE IF Contains(ct, S_pdf) THEN Returned(content)
             ELSE IF LooksLikeHtml(content) THEN Raised("ValueError", HtmlPageMessage)
             ELSE Raised("ValueError", NotPdfMessage(ct))

-----------------------------------------------------------------------------
(* extract_text_from_pdf (lines 218-226).  pdfplumber is a library: the    *)
(* document is the sequence of the texts its pages yield.                  *)

MaxPages == 25

S_page_break == << "\n", "\n" >>

RECURSIVE NonBlankTexts(_)
NonBlankTexts(ts) ==
    IF ts = << >> THEN << >>
    ELSE IF ~IsBlank(Head(ts))
         THEN << Head(ts) >> \o NonBlankTexts(Tail(ts))
         ELSE NonBlankTexts(Tail(ts))

extract_text_from_pdf(pages, max_pages) ==
    LET n == Min(Len(pages), max_pages)
    IN  Strip(Join(NonBlankTexts(SubSeq(pages, 1, n)), S_page_break))

-----------------------------------------------------------------------------
(* extract_discussion_section (lines 228-278).  Every pattern of the       *)
(* source is a line break, then words separated by \s*, each preceded by   *)
(* \s*, then (but for the last stop pattern) \s* and a line break.         *)

W_discussion == << "d", "i", "s", "c", "u", "s", "s", "i", "o", "n" >>

W_general == << "g", "e", "n", "e", "r", "a", "l" >>

W_and == << "a", "n", "d" >>

W_conclusion == << "c", "o", "n", "c", "l", "u", "s", "i", "o", "n" >>

Pattern(words, closed) == [words |-> words, closed |-> closed]

start_patterns ==
    << Pattern(<< W_discussion >>, TRUE),
       Pattern(<< W_general, W_discussion >>, TRUE),
       Pattern(<< W_discussion, W_and, W_conclusion >>, TRUE) >>

stop_patterns ==
    << Pattern(<< W_conclusion >>, TRUE),
       Pattern(<< << "l", "i", "m", "i", "t", "a", "t", "i", "o", "n", "s" >> >>, TRUE),
       Pattern(<< << "i", "m", "p", "l", "i", "c", "a", "t", "i", "o", "n", "s" >> >>, TRUE),
       Pattern(<< << "r", "e", "f", "e", "r", "e", "n", "c", "e", "s" >> >>, TRUE),
       Pattern(<< << "b", "i", "b", "l", "i", "o", "g", "r", "a", "p", "h", "y" >> >>, TRUE),
       Pattern(<< << "a", "p", "p", "e", "n", "d", "i", "x" >> >>, TRUE),
       Pattern(<< << "a", "c", "k", "n", "o", "w", "l", "e", "d", "g" >> >>, FALSE) >>

FallbackCap == 18000

SectionCap == 20000

\* The first position at or after i that holds no whitespace (\s* is greedy).
RECURSIVE SkipSpace(_, _)
SkipSpace(s, i) == IF i <= Len(s) /\ IsSpace(s[i]) THEN SkipSpace(s, i + 1) ELSE i

\* The position after the words of the pattern, matched from position p on
\* with \s* before each; 0 when they do not match.
RECURSIVE WordsEnd(_, _, _)
WordsEnd(s, p, words) ==
    IF words = << >> THEN p
    ELSE LET q == SkipSpace(s, p)
         IN  IF MatchAt(s, q, Head(words))
             THEN WordsEnd(s, q + Len(Head(words)), Tail(words))
             ELSE 0

\* The pattern matches s starting at position i.
PatternAt(s, i, pat) ==
    /\ s[i] = "\n"
    /\ LET e == WordsEnd(s, i + 1, pat.words)
       IN  /\ e # 0
           /\ pat.closed => \E q \in e..(SkipSpace(s, e) - 1) : s[q] = "\n"

\* re.search(pat, s[from - 1:]).start() as a position of s; 0 for no match.
Search(s, from, pat) ==
    IF \E i \in from..Len(s) : PatternAt(s, i, pat)
    THEN CHOOSE i \in from..Len(s) :
             /\ PatternAt(s, i, pat)
             /\ \A j \in from..(i - 1) : ~PatternAt(s, j, pat)
    ELSE 0

\* The loop "for pat in pats: m = re.search(...); if m: ...; break".
RECURSIVE FirstSearch(_, _, _)
FirstSearch(s, from, pats) ==
    IF pats = << >> THEN 0
    ELSE LET m == Search(s, from, Head(pats))
         IN  IF m # 0 THEN m ELSE FirstSearch(s, from, Tail(pats))

\* t[a:b] for 0-based offsets 0 <= a, 0 <= b.
Slice(t, a, b) ==
    IF Min(a, Len(t)) >= Min(b, Len(t)) THEN << >>
    ELSE SubSeq(t, Min(a, Len(t)) + 1, Min(b, Len(t)))

\* The body of the function from the header search on, with the lower-cased
\* text tl = t.lower() and the cut of a text without header as parameters.
SectionFrom(t, tl, cap) ==
    LET header == FirstSearch(tl, 1, start_patterns)
    IN  IF header = 0 THEN Prefix(t, cap)
        ELSE LET start_idx == header - 1
                 stop      == FirstSearch(tl, start_idx + 2, stop_patterns)
                 end_idx   == IF stop # 0 THEN stop - 1 ELSE Len(t)
             IN  Prefix(Strip(Slice(t, start_idx, end_idx)), SectionCap)

\* The same function returning a text without header whole.
extract_discussion_uncut(text) ==
    IF text = << >> THEN << >>
    ELSE SectionFrom(text, Lower(text), Len(text))

extract_discussion_section(text) ==
    IF text = << >> THEN << >>
    ELSE SectionFrom(text, Lower(text), FallbackCap)

-----------------------------------------------------------------------------
(* safe_json_loads (lines 283-285)                                         *)

\* The backquote, which a TLA+ string cannot hold, is written "BQ".
Backquote == "BQ"

S_fence_json == << Backquote, Backquote, Backquote, "j", "s", "o", "n" >>

S_fence == << Backquote, Backquote, Backquote >>

\* The end of a match of ^<fence>json\s* at i (re.MULTILINE, re.IGNORECASE); 0
\* when it does not match there.
FenceOpenEnd(s, i) ==
    IF (i = 1 \/ s[i - 1] = "\n") /\ MatchAtNoCase(s, i, S_fence_json)
    THEN SkipSpace(s, i + Len(S_fence_json)) - 1
    ELSE 0

\* The end of a match of \s*<fence>$ at i; 0 when it does not match there.
FenceCloseEnd(s, i) ==
    LET q == SkipSpace(s, i)
    IN  IF MatchAt(s, q, S_fence) /\ (q + Len(S_fence) > Len(s) \/ s[q + Len(S_fence)] = "\n")
        THEN q + Len(S_fence) - 1
        ELSE 0

\* re.sub(r"^<fence>json\s*|\s*<fence>$", "", s): scanning from position i, every
\* match is dropped and the scan resumes after it.
RECURSIVE FenceSub(_, _)
FenceSub(s, i) ==
    IF i > Len(s) THEN << >>
    ELSE LET a == FenceOpenEnd(s, i)
             b == FenceCloseEnd(s, i)
         IN  IF a # 0 THEN FenceSub(s, a + 1)
             ELSE IF b # 0 THEN FenceSub(s, b + 1)
             ELSE << s[i] >> \o FenceSub(s, i + 1)

\* The text handed to json.loads.
StripFences(s) == Strip(FenceSub(Strip(s), 1))

(* json.loads: the decoder of Python's json module for the documents the   *)
(* model's responses can spell (objects, arrays, strings without escape    *)
(* sequences, numbers, the literals).  A value is a record of its type and *)
(* of its members or its text.                                             *)

JsonWhitespace == {" ", "\t", "\n", "\r"}

Digits == {"0", "1", "2", "3", "4", "5", "6", "7", "8", "9"}

JsonLiterals ==
    << << "n", "u", "l", "l" >>,
       << "t", "r", "u", "e" >>,
       << "f", "a", "l", "s", "e" >>,
       << "N", "a", "N" >>,
       << "I", "n", "f", "i", "n", "i", "t", "y" >>,
       << "-", "I", "n", "f", "i", "n", "i", "t", "y" >> >>

JsonFail == [ok |-> FALSE, end |-> 0, val |-> "none"]

JsonOk(e, v) == [ok |-> TRUE, end |-> e, val |-> v]

RECURSIVE JsonSkip(_, _)
JsonSkip(s, i) == IF i <= Len(s) /\ s[i] \in JsonWhitespace THEN JsonSkip(s, i + 1) ELSE i

RECURSIVE DigitsEnd(_, _)
DigitsEnd(s, i) == IF i <= Len(s) /\ s[i] \in Digits THEN DigitsEnd(s, i + 1) ELSE i

\* scanstring for a string that opens at i: to the next quote; a control
\* character inside is an error (strict), a backslash does not arise.
JsonString(s, i) ==
    IF \E q \in (i + 1)..Len(s) : s[q] = "\""
    THEN LET q == CHOOSE q \in (i + 1)..Len(s) :
                      s[q] = "\"" /\ \A r \in (i + 1)..(q - 1) : s[r] # "\""
         IN  IF \E r \in (i + 1)..(q - 1) : s[r] \in {"\n", "\t", "\r", "\f"}
             THEN JsonFail
             ELSE JsonOk(q + 1, [t |-> "str", s |-> SubSeq(s, i + 1, q - 1)])
    ELSE JsonFail

\* NUMBER_RE: (-?(?:0|[1-9]\d*))(\.\d+)?([eE][-+]?\d+)?
JsonNumber(s, i) ==
    LET d  == IF i <= Len(s) /\ s[i] = "-" THEN i + 1 ELSE i
        e1 == IF d <= Len(s) /\ s[d] = "0" THEN d + 1
              ELSE IF d <= Len(s) /\ s[d] \in Digits THEN DigitsEnd(s, d)
              ELSE 0
        e2 == IF e1 # 0 /\ e1 + 1 <= Len(s) /\ s[e1] = "." /\ s[e1 + 1] \in Digits
              THEN DigitsEnd(s, e1 + 1)
              ELSE e1
        x  == IF e2 # 0 /\ e2 + 1 <= Len(s) /\ s[e2] \in {"e", "E"} /\ s[e2 + 1] \in {"-", "+"}
              THEN e2 + 2
              ELSE e2 + 1
        e3 == IF e2 # 0 /\ e2 <= Len(s) /\ s[e2] \in {"e", "E"} /\ x <= Len(s) /\ s[x] \in Digits
              THEN DigitsEnd(s, x)
              ELSE e2
    IN  IF e1 = 0 THEN JsonFail
        ELSE JsonOk(e3, [t |-> "num", s |-> SubSeq(s, i, e3 - 1)])

JsonLiteral(s, i) ==
    IF \E k \in 1..Len(JsonLiterals) : MatchAt(s, i, JsonLiterals[k])
    THEN LET k == CHOOSE k \in 1..Len(JsonLiterals) : MatchAt(s, i, JsonLiterals[k])
         IN  JsonOk(i + Len(JsonLiterals[k]), [t |-> "lit", s |-> JsonLiterals[k]])
    ELSE JsonFail

RECURSIVE JsonValue(_, _), JsonMembers(_, _, _), JsonElements(_, _, _)

\* The members of an object from the key that must open at i on.
JsonMembers(s, i, items) ==
    IF i > Len(s) \/ s[i] # "\"" THEN JsonFail
    ELSE LET key == JsonString(s, i)
             c   == JsonSkip(s, key.end)
             v   == JsonValue(s, JsonSkip(s, c + 1))
             m   == JsonSkip(s, v.end)
             got == Append(items, << key.val.s, v.val >>)
         IN  IF ~key.ok \/ c > Len(s) \/ s[c] # ":" THEN JsonFail
             ELSE IF ~v.ok \/ m > Len(s) THEN JsonFail
             ELSE IF s[m] = "}" THEN JsonOk(m + 1, [t |-> "dict", items |-> got])
             ELSE IF s[m] = "," THEN JsonMembers(s, JsonSkip(s, m + 1), got)
             ELSE JsonFail

\* The elements of an array from the value that must open at i on.
JsonElements(s, i, items) ==
    LET v   == JsonValue(s, i)
        m   == JsonSkip(s, v.end)
        got == Append(items, v.val)
    IN  IF ~v.ok \/ m > Len(s) THEN JsonFail
        ELSE IF s[m] = "]" THEN JsonOk(m + 1, [t |-> "list", items |-> got])
        ELSE IF s[m] = "," THEN JsonElements(s, JsonSkip(s, m + 1), got)
        ELSE JsonFail

\* scan_once
JsonValue(s, i) ==
    IF i > Len(s) THEN JsonFail
    ELSE IF s[i] = "\"" THEN JsonString(s, i)
    ELSE IF s[i] = "{"
         THEN LET j == JsonSkip(s, i + 1)
              IN  IF j <= Len(s) /\ s[j] = "}"
                  THEN JsonOk(j + 1, [t |-> "dict", items |-> << >>])
                  ELSE JsonMembers(s, j, << >>)
    ELSE IF s[i] = "["
         THEN LET j == JsonSkip(s, i + 1)
              IN  IF j <= Len(s) /\ s[j] = "]"
                  THEN JsonOk(j + 1, [t |-> "list", items |-> << >>])
                  ELSE JsonElements(s, j, << >>)
    ELSE IF JsonLiteral(s, i).ok THEN JsonLiteral(s, i)
    ELSE JsonNumber(s, i)

\* json.loads(s): one value, whitespace around it, nothing else.
json_loads(s) ==
    LET v == JsonValue(s, JsonSkip(s, 1))
    IN  IF v.ok /\ JsonSkip(s, v.end) = Len(s) + 1 THEN v ELSE JsonFail

\* The value returned, or JsonFail for the exception raised.
safe_json_loads(s) == json_loads(StripFences(s))

\* safe_json_loads(s) returns rather than raises.
JsonParses(s) == safe_json_loads(s).ok

-----------------------------------------------------------------------------
(* llm_grade (lines 287-368).  The oracle is a service: its answer is the  *)
(* text of resp.choices[0].message.content.  A dict the function builds is *)
(* a record of its keys; a value json.loads returned is under "json".      *)

ExcerptCap == 14000

NoKeyMessage == << "OPENAI_API_KEY is not set. Add it to Streamlit Secrets (OPENAI_API_KEY)." >>

NonJsonMessage == << "Model returned non-JSON output." >>

\* The request of lines 357-362, by what varies in it.
OracleRequest(quote, student, discussion_text, ref) ==
    [quote |-> quote, student |-> student, pdf_ref |-> ref,
     discussion_excerpt |-> IF discussion_text # << >>
                            THEN Prefix(discussion_text, ExcerptCap)
                            ELSE << >>]

\* The same function with the cleaned text, not the answer, kept as "raw".
llm_grade_keeps_cleaned(content) ==
    LET raw    == Strip(content)
        parsed == safe_json_loads(raw)
    IN  IF parsed.ok THEN [json |-> parsed.val]
        ELSE [error |-> NonJsonMessage, raw |-> StripFences(raw)]

\* Lines 364-368: what llm_grade returns for the oracle's answer.
llm_grade(content) ==
    LET raw    == Strip(content)
        parsed == safe_json_loads(raw)
    IN  IF parsed.ok THEN [json |-> parsed.val]
        ELSE [error |-> NonJsonMessage, raw |-> raw]

-----------------------------------------------------------------------------
(* The script body that runs on every interaction (lines 383-426).         *)

MinChars == 10

\* The same resolution with cell 6 tried before the override field.
resolve_cell6_first(manual, cell6, text) ==
    LET auto_url == IF ~looks_like_url(cell6) THEN find_first_url_anywhere(text) ELSE << >>
    IN  IF looks_like_url(cell6) THEN cell6
        ELSE IF looks_like_url(Strip(manual)) THEN Strip(manual)
        ELSE IF auto_url # << >> THEN auto_url
        ELSE << >>

\* Lines 388-397.
resolve_pdf_url(manual, cell6, text) ==
    LET auto_url == IF ~looks_like_url(cell6) THEN find_first_url_anywhere(text) ELSE << >>
    IN  IF looks_like_url(Strip(manual)) THEN Strip(manual)
        ELSE IF looks_like_url(cell6) THEN cell6
        ELSE IF auto_url # << >> THEN auto_url
        ELSE << >>

\* Lines 416-423: the inputs still missing; Evaluate is disabled when any is.
missing(row, link, upload) ==
    (IF Len(Strip(row[1])) < MinChars THEN {"Cell 1 (quote)"} ELSE {})
        \cup (IF Len(Strip(row[4])) < MinChars THEN {"Cell 4 (student summary)"} ELSE {})
        \cup (IF link = << >> /\ upload = None
              THEN {"Cell 6 URL (https://...) OR uploaded PDF"} ELSE {})

-----------------------------------------------------------------------------
(* The row parser alone: a paste is split once.                            *)

MaxPasteLen == 4

PasteAlphabet == {"a", " ", "\t", "\n", "\""}

\* Rows of six, seven and eight cells, so that the padding of a short row
\* and the cut of a long one both occur with the bodies below.
WideRows ==
    { << >>,
      << "a", "\t", "a", "\t", " ", "\t", "a", "\t", "\t" >>,
      << "a", "\t", "\t", " ", "a", "\t", "\"", "a", "\t", "a", "\"", "\t", "\t", "a", " ", "\t" >>,
      << "\t", "a", "\t", "\t", "\t", "\t", "\t", "\t", "a", "\n" >> }

Pastes == { w \o b : w \in WideRows, b \in SeqsUpTo(PasteAlphabet, MaxPasteLen) }

\* The variables a run does not use keep the value Idle.
IdleInputs == client = Idle /\ paste = Idle /\ manual_url = Idle /\ uploaded_pdf = Idle

IdleRow == cells = Idle /\ warnings = Idle /\ pdf_url = Idle

IdleNorm == url_in = Idle /\ url = Idle /\ napplied = 0

IdleFetch == response = Idle /\ fetched = Idle

IdleDocument == pdf_bytes = Idle /\ pdf_ref = Idle /\ full_text = Idle /\ discussion = Idle

IdleGrade == raw_resp = Idle /\ result = Idle

NoHistory == fetches = << >> /\ oracle_calls = << >> /\ steps = << >> /\ shown = << >>

InitRow ==
    /\ pc = "pasted"
    /\ paste \in Pastes
    /\ client = Idle /\ manual_url = Idle /\ uploaded_pdf = Idle
    /\ IdleRow /\ IdleNorm /\ IdleFetch /\ IdleDocument /\ IdleGrade /\ NoHistory

\* cells, warnings = split_excel_row(paste)   (line 383)
SplitRow ==
    /\ pc = "pasted"
    /\ cells' = split_excel_row(paste).row
    /\ warnings' = split_excel_row(paste).warnings
    /\ pc' = "split"
    /\ UNCHANGED << client, paste, manual_url, uploaded_pdf, pdf_url, url_in, url,
                    napplied, response, fetched, pdf_bytes, pdf_ref, full_text,
                    discussion, raw_resp, result, fetches, oracle_calls, steps, shown >>

NextRow == SplitRow

SpecRow == InitRow /\ [][NextRow]_vars

\* The text between the line breaks of s, in order.
RECURSIVE LinesOf(_, _)
LinesOf(s, sep) ==
    IF \E i \in 1..Len(s) : s[i] = sep
    THEN LET i == CHOOSE i \in 1..Len(s) : s[i] = sep /\ \A j \in 1..(i - 1) : s[j] # sep
         IN  << SubSeq(s, 1, i - 1) >> \o LinesOf(SubSeq(s, i + 1, Len(s)), sep)
    ELSE << s >>

\* The first line of the paste that is not blank, cut at its tabs; no cell
\* when every line is blank.
FirstRowByTabs(p) ==
    LET ls == LinesOf(p, "\n")
    IN  IF \A k \in 1..Len(ls) : IsBlank(ls[k]) THEN << >>
        ELSE LinesOf(ls[CHOOSE k \in 1..Len(ls) :
                            ~IsBlank(ls[k]) /\ \A j \in 1..(k - 1) : IsBlank(ls[j])], "\t")

\* The first row the CSV reader yields that has a cell that is not blank.
FirstRowByReader(p) ==
    LET rs == CsvRows(p)
        nb == { k \in 1..Len(rs) : \E c \in 1..Len(rs[k]) : ~IsBlank(rs[k][c]) }
    IN  IF nb = {} THEN << >> ELSE rs[CHOOSE k \in nb : \A j \in nb : k <= j]

\* The number of rows of the paste that have a cell that is not blank.
NonBlankRowCount(p) ==
    Cardinality({ k \in 1..Len(CsvRows(p)) :
                      \E c \in 1..Len(CsvRows(p)[k]) : ~IsBlank(CsvRows(p)[k][c]) })

HasQuote(p) == \E i \in 1..Len(p) : p[i] = "\""

\* C1: whatever the paste, split_excel_row returns exactly 6 cells: cell k is
\* the trimmed k-th cell of the first non-blank row when that row has a k-th
\* cell and the empty string when it has not, so short rows are padded on
\* the right, long rows are cut after the 6th cell and no cell changes
\* place.  The row is the reader's first non-blank row, which for a paste
\* without double quotes is the first non-blank line cut at its tabs.
C1_SixCellsInOrder ==
    pc = "split" =>
        /\ Len(cells) = 6
        /\ \A k \in 1..6 :
               cells[k] = IF k <= Len(FirstRowByReader(paste))
                          THEN Strip(FirstRowByReader(paste)[k])
                          ELSE << >>
        /\ ~HasQuote(paste) => FirstRowByReader(paste) = FirstRowByTabs(paste)

\* A paste whose first non-blank row has more than 6 cells, one of them with
\* blanks around it, has been split.
C1_Witness ==
    /\ pc = "split"
    /\ Len(FirstRowByReader(paste)) > 6
    /\ \E k \in 1..6 : FirstRowByReader(paste)[k] # Strip(FirstRowByReader(paste)[k])
    /\ \E k \in 1..6 : cells[k] # << >>

\* C9 as stated: with two or more non-blank rows the cells are those of the
\* first and a warning states the number of discarded rows, the number of
\* non-blank rows minus one.
C9_WarningStatesDiscarded ==
    (pc = "split" /\ NonBlankRowCount(paste) >= 2) =>
        /\ \A k \in 1..6 :
               cells[k] = IF k <= Len(FirstRowByReader(paste))
                          THEN Strip(FirstRowByReader(paste)[k])
                          ELSE << >>
        /\ \E w \in 1..Len(warnings) :
               warnings[w] = RowsWarning(NonBlankRowCount(paste) - 1)

\* C9: with two or more non-blank rows the cells are those of the
\* first and the first warning states the number of non-blank rows detected
\* (the discarded rows and the one used); with fewer no warning counts rows.
C9_WarningStatesDetected ==
    pc = "split" =>
        /\ \A k \in 1..6 :
               cells[k] = IF k <= Len(FirstRowByReader(paste))
                          THEN Strip(FirstRowByReader(paste)[k])
                          ELSE << >>
        /\ NonBlankRowCount(paste) >= 2 =>
               /\ warnings # << >>
               /\ warnings[1] = RowsWarning(NonBlankRowCount(paste))
        /\ NonBlankRowCount(paste) < 2 =>
               \A w \in 1..Len(warnings) : warnings[w][3] # RowsWarning(0)[3]

\* A paste of three non-blank rows has been split.
C9_Witness ==
    /\ pc = "split"
    /\ NonBlankRowCount(paste) = 3
    /\ warnings # << >>

-----------------------------------------------------------------------------
(* The URL normalisation alone: a URL is normalised, and normalised again, *)
(* as when a URL the function returned is handed back to it.               *)

MaxUrlPieces == 3

MaxApply == 2

UrlPieces ==
    { << "h", "t", "t", "p", "s", ":", "/", "/" >>,
      << "x", ".", "s", "h", "a", "r", "e", "p", "o", "i", "n", "t", ".", "c", "o", "m" >>,
      << "S", "h", "a", "r", "e", "P", "o", "i", "n", "t", ".", "C", "O", "M" >>,
      << "O", "n", "e", "D", "r", "i", "v", "e" >>,
      << "o", "n", "e", "d", "r", "i", "v", "e" >>,
      << ":", "f", ":", "/", "a", ".", "p", "d", "f" >>,
      << "?" >>,
      << "&" >>,
      << "d", "o", "w", "n", "l", "o", "a", "d", "=", "1" >>,
      << "D", "O", "W", "N", "L", "O", "A", "D", "=", "1" >>,
      << "e", "=", "1" >>,
      << IDot >> }

Urls == { Concat(ps) : ps \in SeqsUpTo(UrlPieces, MaxUrlPieces) }

InitNorm ==
    /\ pc = "url"
    /\ url_in \in Urls
    /\ url = url_in
    /\ napplied = 0
    /\ IdleInputs /\ IdleRow /\ IdleFetch /\ IdleDocument /\ IdleGrade /\ NoHistory

\* url = normalize_sharepoint_download_url(url)   (line 192)
Normalize ==
    /\ pc = "url"
    /\ napplied < MaxApply
    /\ url' = normalize_sharepoint_download_url(url)
    /\ napplied' = napplied + 1
    /\ UNCHANGED << pc, client, paste, manual_url, uploaded_pdf, cells, warnings,
                    pdf_url, url_in, response, fetched, pdf_bytes, pdf_ref, full_text,
                    discussion, raw_resp, result, fetches, oracle_calls, steps, shown >>

NextNorm == Normalize

SpecNorm == InitNorm /\ [][NextNorm]_vars

\* w occurs in s in some letter case.
ContainsNoCase(s, w) == \E i \in 1..(Len(s) - Len(w) + 1) : MatchAtNoCase(s, i, w)

IsFileShare(u) == ContainsNoCase(u, S_sharepoint) \/ ContainsNoCase(u, S_onedrive)

\* C10: after one normalisation, and after two, the URL is the given one when
\* that held "download=1" already or names neither "sharepoint.com" nor
\* "onedrive" (in any letter case), and otherwise the given one followed by
\* exactly "?download=1" when it has no "?" and "&download=1" when it has one;
\* so the second normalisation changes nothing.
C10_NormalizeIdempotent ==
    napplied >= 1 =>
        /\ (ContainsNoCase(url_in, S_download) \/ ~IsFileShare(url_in)) => url = url_in
        /\ (~ContainsNoCase(url_in, S_download) /\ IsFileShare(url_in)) =>
               url = url_in \o (IF \E i \in 1..Len(url_in) : url_in[i] = "?"
                                THEN S_amp_download
                                ELSE S_q_download)
        /\ normalize_sharepoint_download_url(url) = url

\* A file-sharing URL without the parameter has been normalised twice.
C10_Witness ==
    /\ napplied = 2
    /\ IsFileShare(url_in)
    /\ ~ContainsNoCase(url_in, S_download)
    /\ url # url_in

-----------------------------------------------------------------------------
(* The fetcher alone: one response is classified.                          *)

\* Final statuses of a request: success, partial content, a redirection
\* that requests does not follow (no Location header), and errors.
Statuses == {200, 206, 300, 403, 404, 503}

ContentTypes ==
    { None, << >>,
      << "a", "p", "p", "l", "i", "c", "a", "t", "i", "o", "n", "/", "p", "d", "f" >>,
      << "A", "p", "p", "l", "i", "c", "a", "t", "i", "o", "n", "/", "P", "D", "F" >>,
      << "a", "p", "p", "l", "i", "c", "a", "t", "i", "o", "n", "/", "x", "-", "p", "d", "f", ";", " ", "c", "h", "a", "r", "s", "e", "t", "=", "b", "i", "n", "a", "r", "y" >>,
      << "t", "e", "x", "t", "/", "h", "t", "m", "l", ";", " ", "c", "h", "a", "r", "s", "e", "t", "=", "u", "t", "f", "-", "8" >>,
      << "a", "p", "p", "l", "i", "c", "a", "t", "i", "o", "n", "/", "o", "c", "t", "e", "t", "-", "s", "t", "r", "e", "a", "m" >>,
      << "t", "e", "x", "t", "/", "p", "l", "a", "i", "n" >> }

\* Bodies: PDF signatures and near misses, HTML openers in several letter
\* cases, and an HTML opener that ends at byte 300 and one at byte 301.
Bodies ==
    { << >>,
      << "%", "P", "D", "F", "-", "1", ".", "4" >>,
      << "%", "P", "D" >>,
      << "x", "%", "P", "D", "F" >>,
      << "%", "p", "d", "f" >>,
      << "<", "h", "t", "m", "l", ">", "<", "b", "o", "d", "y", ">" >>,
      << "<", "H", "T", "M", "L", ">" >>,
      << "<", "!", "D", "O", "C", "T", "Y", "P", "E", " ", "h", "t", "m", "l", ">" >>,
      << "<", "!", "d", "o", "c", "t", "y", "p", "e", " ", "H", "T", "M", "L", " ", "P", "U", "B", "L", "I", "C" >>,
      << " ", "\n", "<", "H", "t", "m", "l", " ", "l", "a", "n", "g" >>,
      << "<", "h", "t", "m" >>,
      << "h", "e", "l", "l", "o" >>,
      << "%", "P", "D", "F", "<", "h", "t", "m", "l", ">" >>,
      Fill("x", HeadLen - Len(S_html_tag)) \o S_html_tag \o << ">" >>,
      Fill("x", HeadLen - Len(S_html_tag) + 1) \o S_html_tag \o << ">" >>,
      Fill(" ", HeadLen - Len(S_doctype)) \o S_doctype,
      Fill(" ", HeadLen - Len(S_doctype) + 1) \o S_doctype }

RequestException == [raised |-> TRUE, status |-> 0, ct |-> None, content |-> << >>]

Responses ==
    { RequestException }
        \cup [raised : {FALSE}, status : Statuses, ct : ContentTypes, content : Bodies]

InitFetch ==
    /\ pc = "requested"
    /\ response \in Responses
    /\ fetched = Idle
    /\ IdleInputs /\ IdleRow /\ IdleNorm /\ IdleDocument /\ IdleGrade /\ NoHistory

\* The part of download_pdf_bytes after requests.get (lines 195-216).
Download ==
    /\ pc = "requested"
    /\ fetched' = download_pdf_bytes(response)
    /\ pc' = IF fetched'.kind = "return" THEN "returned" ELSE "raised"
    /\ UNCHANGED << client, paste, manual_url, uploaded_pdf, cells, warnings, pdf_url,
                    url_in, url, napplied, response, pdf_bytes, pdf_ref, full_text,
                    discussion, raw_resp, result, fetches, oracle_calls, steps, shown >>

NextFetch == Download

SpecFetch == InitFetch /\ [][NextFetch]_vars

\* One of the two HTML openers, in any letter case, lies within the first 300
\* bytes of the body.
HtmlWithinHead(body) ==
    \E i \in 1..HeadLen :
        \/ (MatchAtNoCase(body, i, S_html_tag) /\ i + Len(S_html_tag) - 1 <= HeadLen)
        \/ (MatchAtNoCase(body, i, S_doctype) /\ i + Len(S_doctype) - 1 <= HeadLen)

\* The Content-Type header declares "pdf", in any letter case.
DeclaresPdf(r) == r.ct # None /\ ContainsNoCase(r.ct, S_pdf)

\* C3 as stated: a response whose leading bytes are an HTML document fails
\* with the HTML-page cause, and not with the generic one, whatever
\* Content-Type was declared.
C3_HtmlAlwaysHtmlCause ==
    (pc # "requested" /\ ~response.raised /\ HtmlWithinHead(response.content)) =>
        fetched = Raised("ValueError", HtmlPageMessage)

\* C3: a response whose status is not an error status (400-599),
\* whose body does not begin with %PDF and whose Content-Type does not
\* declare pdf fails with the HTML-page cause when an HTML opener lies within
\* its first 300 bytes, and with the generic cause when none does.
C3_HtmlCauseUnlessPdf ==
    (/\ pc # "requested"
     /\ ~response.raised
     /\ ~(response.status >= 400 /\ response.status <= 599)
     /\ SubSeq(response.content, 1, Min(4, Len(response.content))) # S_pdf_magic
     /\ ~DeclaresPdf(response)) =>
        /\ fetched.kind = "raise"
        /\ fetched.exc = "ValueError"
        /\ HtmlWithinHead(response.content) <=> fetched.msg = HtmlPageMessage
        /\ ~HtmlWithinHead(response.content) <=> fetched.msg[1] = NotPdfMessage(<< >>)[1]

\* A body whose HTML opener ends exactly at byte 300, sent with an HTML
\* Content-Type, has been refused with the HTML-page cause.
C3_Witness ==
    /\ pc = "raised"
    /\ response.status = 200
    /\ Len(response.content) > HeadLen
    /\ HtmlWithinHead(response.content)
    /\ fetched.msg = HtmlPageMessage

-----------------------------------------------------------------------------
(* The section locator alone: one text is cut.                             *)

MaxLines == 3

\* Lines of a text: headers, stop markers, running text, and a line of two
\* U+0130 (a capitalised Turkish name).
TextLines ==
    { <<  >>,
      << "D", "i", "s", "c", "u", "s", "s", "i", "o", "n" >>,
      << " ", "d", "i", "s", "c", "u", "s", "s", "i", "o", "n", " " >>,
      << "G", "e", "n", "e", "r", "a", "l", " ", "D", "i", "s", "c", "u", "s", "s", "i", "o", "n" >>,
      << "D", "i", "s", "c", "u", "s", "s", "i", "o", "n", " ", "a", "n", "d", " ", "C", "o", "n", "c", "l", "u", "s", "i", "o", "n" >>,
      << "C", "o", "n", "c", "l", "u", "s", "i", "o", "n" >>,
      << "R", "e", "f", "e", "r", "e", "n", "c", "e", "s" >>,
      << "A", "c", "k", "n", "o", "w", "l", "e", "d", "g", "m", "e", "n", "t", "s" >>,
      << "x", " ", "y" >>,
      << IDot, IDot >> }

S_header == << "\n", "D", "i", "s", "c", "u", "s", "s", "i", "o", "n", "\n" >>

S_stop == << "\n", "C", "o", "n", "c", "l", "u", "s", "i", "o", "n", "\n" >>

S_example ==
    << ".", ".", ".", "\n", "\n", "D", "i", "s", "c", "u", "s", "s", "i", "o", "n", "\n", "\n", "F", "i", "n", "d", "i", "n", "g", "s", " ", "A", " ", "a", "n", "d", " ", "B", ".", "\n", "\n", "C", "o", "n", "c", "l", "u", "s", "i", "o", "n", "\n", "\n", "W", "e", " ", "c", "o", "n", "c", "l", "u", "d", "e", ".", ".", "." >>

S_example_section ==
    << "D", "i", "s", "c", "u", "s", "s", "i", "o", "n", "\n", "\n", "F", "i", "n", "d", "i", "n", "g", "s", " ", "A", " ", "a", "n", "d", " ", "B", "." >>

\* Texts longer than the two caps, with and without a header.
LongTexts ==
    { Fill("x", FallbackCap + 1),
      Fill("x", SectionCap + 1),
      << "x" >> \o S_header \o Fill("y", SectionCap + 1),
      << "x" >> \o S_header \o Fill("y", SectionCap + 1) \o S_stop \o << "z" >>,
      Fill("x", FallbackCap + 1) \o S_header \o << "y" >> \o S_stop,
      << IDot >> \o Fill("x", FallbackCap + 1) \o S_header \o << "y" >> \o S_stop }

Texts ==
    { pre \o Join(ls, << "\n" >>) \o post :
          pre \in { << >>, << "\n" >> },
          ls \in SeqsUpTo(TextLines, MaxLines),
          post \in { << >>, << "\n" >> } }
        \cup LongTexts \cup { S_example }

InitSection ==
    /\ pc = "locate"
    /\ full_text \in Texts
    /\ pdf_bytes = Idle /\ pdf_ref = Idle /\ discussion = Idle
    /\ IdleInputs /\ IdleRow /\ IdleNorm /\ IdleFetch /\ IdleGrade /\ NoHistory

\* discussion = extract_discussion_section(full_text)   (line 470)
Locate ==
    /\ pc = "locate"
    /\ steps' = Append(steps, "locate")
    /\ discussion' = extract_discussion_section(full_text)
    /\ pc' = "fallback"
    /\ UNCHANGED << client, paste, manual_url, uploaded_pdf, cells, warnings, pdf_url,
                    url_in, url, napplied, response, fetched, pdf_bytes, pdf_ref,
                    full_text, raw_resp, result, fetches, oracle_calls, shown >>

NextSection == Locate

SpecSection == InitSection /\ [][NextSection]_vars

\* The text with its letters in lower case, every character in its place.
LowerInPlace(t) ==
    LET lowered == [j \in 1..Len(t) |-> LowerChar(t[j])]
    IN  SubSeq(lowered, 1, Len(lowered))

\* The place in the text where the header starts: the earliest match of the
\* first header pattern that matches anywhere; 0 without a header.
HeaderStart(t) == FirstSearch(LowerInPlace(t), 1, start_patterns)

\* The place in the text where the section ends: just before the earliest
\* match, after the start of the header, of the first stop pattern that
\* matches there, or the end of the text.
SectionEnd(t) ==
    LET stop == FirstSearch(LowerInPlace(t), HeaderStart(t) + 1, stop_patterns)
    IN  IF stop # 0 THEN stop - 1 ELSE Len(t)

\* C5: for a text with a header line the result is the text from the header
\* to just before the stop marker (or to the end), trimmed and cut to its
\* first 20000 characters; for the example of the specification it is
\* "Discussion\n\nFindings A and B.".
C5_SectionFromHeaderToStop ==
    (pc = "fallback" /\ HeaderStart(full_text) # 0) =>
        /\ discussion = Prefix(Strip(SubSeq(full_text, HeaderStart(full_text),
                                            SectionEnd(full_text))), 20000)
        /\ full_text = S_example => discussion = S_example_section

\* The same property for the texts that hold no U+0130.
C5_SectionWhenLowerKeepsLength ==
    (/\ pc = "fallback"
     /\ HeaderStart(full_text) # 0
     /\ \A i \in 1..Len(full_text) : full_text[i] # IDot) =>
        /\ discussion = Prefix(Strip(SubSeq(full_text, HeaderStart(full_text),
                                            SectionEnd(full_text))), 20000)
        /\ full_text = S_example => discussion = S_example_section

-----------------------------------------------------------------------------
(* The grader alone: llm_grade is called once.                             *)

MaxAnswerPieces == 3

AnswerPieces ==
    { << Backquote, Backquote, Backquote, "j", "s", "o", "n" >>,
      << Backquote, Backquote, Backquote, "J", "S", "O", "N" >>,
      << Backquote, Backquote, Backquote >>,
      << "\n" >>,
      << " " >>,
      << "{", "\"", "a", "\"", ":", " ", "1", "}" >>,
      << "{", "\"", "e", "r", "r", "o", "r", "\"", ":", " ", "\"", "x", "\"", "}" >>,
      << "[", "1", "]" >>,
      << "{" >>,
      << "S", "u", "r", "e", ":" >> }

Answers == { Concat(ps) : ps \in SeqsUpTo(AnswerPieces, MaxAnswerPieces) }

S_quote == << "a", " ", "q", "u", "o", "t", "e", "d", " ", "f", "i", "n", "d", "i", "n", "g" >>

S_student == << "a", " ", "s", "t", "u", "d", "e", "n", "t", " ", "s", "u", "m", "m", "a", "r", "y" >>

InitGrade ==
    /\ pc = "grade"
    /\ client \in {"None", "client"}
    /\ cells = << S_quote, << >>, << >>, S_student, << >>, << >> >>
    /\ discussion = S_example_section
    /\ pdf_ref = << "uploaded PDF" >>
    /\ paste = Idle /\ manual_url = Idle /\ uploaded_pdf = Idle
    /\ warnings = Idle /\ pdf_url = Idle /\ pdf_bytes = Idle /\ full_text = Idle
    /\ IdleNorm /\ IdleFetch /\ IdleGrade /\ NoHistory

\* result = llm_grade(cell1, cell4, discussion, pdf_ref)   (line 476)
\* Without a client the function returns at once (lines 294-295); with one
\* it calls the oracle, which answers or raises.
Grade(answers) ==
    /\ pc = "grade"
    /\ steps' = Append(steps, "grade")
    /\ \/ /\ client = "None"
          /\ result' = [error |-> NoKeyMessage]
          /\ pc' = "graded"
          /\ UNCHANGED << raw_resp, oracle_calls >>
       \/ /\ client # "None"
          /\ oracle_calls' = Append(oracle_calls,
                                    OracleRequest(cells[1], cells[4], discussion, pdf_ref))
          /\ \/ \E content \in answers :
                    /\ raw_resp' = content
                    /\ result' = llm_grade(content)
                    /\ pc' = "graded"
             \/ /\ pc' = "crashed"
                /\ UNCHANGED << raw_resp, result >>
    /\ UNCHANGED << client, paste, manual_url, uploaded_pdf, cells, warnings, pdf_url,
                    url_in, url, napplied, response, fetched, pdf_bytes, pdf_ref,
                    full_text, discussion, fetches, shown >>

NextGrade == Grade(Answers)

SpecGrade == InitGrade /\ [][NextGrade]_vars

\* C7 as stated: when the oracle's answer does not parse as JSON once its
\* fences are stripped, the record returned has an "error" and a "raw" equal
\* to the answer as the oracle gave it.
C7_RawIsAnswerUnmodified ==
    (pc = "graded" /\ oracle_calls # << >> /\ ~JsonParses(raw_resp)) =>
        /\ "error" \in DOMAIN result
        /\ "raw" \in DOMAIN result
        /\ result.raw = raw_resp

\* C7: when the oracle's answer does not parse as JSON once its
\* fences are stripped, the record returned has an "error" and a "raw" equal
\* to the answer with the whitespace around it removed, fences kept.
C7_RawIsAnswerTrimmed ==
    (pc = "graded" /\ oracle_calls # << >> /\ ~JsonParses(raw_resp)) =>
        /\ "error" \in DOMAIN result
        /\ "raw" \in DOMAIN result
        /\ result.raw = Strip(raw_resp)

\* An answer that opens with a fence, ends in whitespace and does not parse
\* has been graded.
C7_Witness ==
    /\ pc = "graded"
    /\ oracle_calls # << >>
    /\ ~JsonParses(raw_resp)
    /\ MatchAt(raw_resp, 1, S_fence)
    /\ raw_resp # Strip(raw_resp)
    /\ "raw" \in DOMAIN result

-----------------------------------------------------------------------------
(* One evaluation: the script runs on the inputs, the user clicks          *)
(* Evaluate, and the handler (lines 433-538) runs to its end.              *)

S_url_cell == << "h", "t", "t", "p", "s", ":", "/", "/", "c", ".", "o", "r", "g", "/", "c", ".", "p", "d", "f" >>

S_url_share == << " ", "H", "T", "T", "P", "S", ":", "/", "/", "x", ".", "S", "h", "a", "r", "e", "P", "o", "i", "n", "t", ".", "c", "o", "m", "/", ":", "b", ":", "/", "f", "?", "e", "=", "1", " " >>

S_url_text == << "(", "s", "e", "e", " ", "h", "t", "t", "p", ":", "/", "/", "b", ".", "o", "r", "g", "/", "b", ".", "p", "d", "f", ")", "." >>

S_url_manual == << " ", "h", "t", "t", "p", "s", ":", "/", "/", "m", ".", "o", "r", "g", "/", "m", ".", "p", "d", "f", " " >>

S_short == << "t", "o", "o", " ", "s", "h", "o", "r", "t" >>

Row(c1, c2, c6) ==
    Join(<< c1, c2, << "Y" >>, S_student, << "Z" >>, c6 >>, << "\t" >>)

EvalPastes ==
    { << >>,
      Row(S_short, << "X" >>, S_url_cell),
      Row(S_quote, << "X" >>, << >>),
      Row(S_quote, S_url_text, << "l", "i", "n", "k" >>),
      Row(S_quote, S_url_text, S_url_cell),
      Row(S_quote, << "X" >>, S_url_share) }

ManualUrls == { << >>, S_url_manual, << "m", ".", "o", "r", "g" >> }

Uploads == { None, << "%", "P", "D", "F", "-", "1", ".", "7", " ", "u", "p", "l", "o", "a", "d" >> }

\* What the server declared and sent: a PDF, a PDF declared and not sent, an
\* HTML page, an HTML page declared a PDF, and something else.
EvalPayloads ==
    { << None, << "%", "P", "D", "F", "-", "1", ".", "4" >> >>,
      << << "a", "p", "p", "l", "i", "c", "a", "t", "i", "o", "n", "/", "p", "d", "f" >>, << "b", "i", "n", "a", "r", "y" >> >>,
      << << "t", "e", "x", "t", "/", "h", "t", "m", "l" >>, << "<", "h", "t", "m", "l", ">" >> >>,
      << << "A", "p", "p", "l", "i", "c", "a", "t", "i", "o", "n", "/", "P", "D", "F" >>, << "<", "!", "D", "O", "C", "T", "Y", "P", "E", " ", "h", "t", "m", "l", ">" >> >>,
      << << "t", "e", "x", "t", "/", "p", "l", "a", "i", "n" >>, << "h", "e", "l", "l", "o" >> >> }

EvalStatuses == {200, 300, 404}

EvalResponses ==
    { RequestException }
        \cup { [raised |-> FALSE, status |-> st, ct |-> p[1], content |-> p[2]] :
                   st \in EvalStatuses, p \in EvalPayloads }

\* What pdfplumber reads from the bytes: the texts of the pages.  No page, a
\* scanned page, a text whose only text page is beyond max_pages, texts with
\* and without a header, and a text without header longer than the cap.
EvalDocuments ==
    { << >>,
      << << " ", "\n" >> >>,
      [k \in 1..(MaxPages + 1) |-> IF k <= MaxPages THEN << >> ELSE S_example],
      << S_example >>,
      << << "I", "n", "t", "r", "o", " " >>, << >>, << "D", "i", "s", "c", "u", "s", "s", "i", "o", "n", "\n", "F", "i", "n", "d", "i", "n", "g", "s", ".", "\n" >> >>,
      << << "N", "o", " ", "h", "e", "a", "d", "e", "r", ":", " ", "d", "i", "s", "c", "u", "s", "s", "i", "o", "n", " ", "o", "f", " ", "r", "e", "s", "u", "l", "t", "s", "." >> >>,
      << << " ", "D", "i", "s", "c", "u", "s", "s", "i", "o", "n", " ", "\n" >> >>,
      << Fill("x", FallbackCap) \o << "y", "z" >> >> }

S_judgment == << "{", "\"", "q", "u", "o", "t", "e", "_", "i", "s", "_", "d", "i", "s", "c", "u", "s", "s", "i", "o", "n", "_", "f", "i", "n", "d", "i", "n", "g", "\"", ":", " ", "\"", "y", "e", "s", "\"", ",", " ", "\"", "c", "o", "n", "f", "i", "d", "e", "n", "c", "e", "\"", ":", " ", "\"", "h", "i", "g", "h", "\"", "}" >>

S_error == << "e", "r", "r", "o", "r" >>

S_raw == << "r", "a", "w" >>

EvalAnswers ==
    { S_judgment,
      S_fence_json \o << "\n" >> \o S_judgment \o << "\n" >> \o S_fence \o << "\n" >>,
      << " ", "I", " ", "c", "a", "n", "n", "o", "t", " ", "j", "u", "d", "g", "e", " ", "t", "h", "i", "s", ".", " " >>,
      << "{", "\"", "e", "r", "r", "o", "r", "\"", ":", " ", "\"", "n", "o", " ", "e", "x", "c", "e", "r", "p", "t", "\"", "}" >>,
      << "[", "1", ",", " ", "2", "]" >> }

InitEval ==
    /\ pc = "script"
    /\ client \in {"None", "client"}
    /\ paste \in EvalPastes
    /\ manual_url \in ManualUrls
    /\ uploaded_pdf \in Uploads
    /\ IdleRow /\ IdleNorm /\ IdleFetch /\ IdleDocument /\ IdleGrade /\ NoHistory

\* Lines 383-397: the row is split and the URL resolved.
Script ==
    /\ pc = "script"
    /\ cells' = split_excel_row(paste).row
    /\ warnings' = split_excel_row(paste).warnings
    /\ pdf_url' = resolve_pdf_url(manual_url, cells'[6], paste)
    /\ pc' = "ready"
    /\ UNCHANGED << client, paste, manual_url, uploaded_pdf, url_in, url, napplied,
                    response, fetched, pdf_bytes, pdf_ref, full_text, discussion,
                    raw_resp, result, fetches, oracle_calls, steps, shown >>

\* Line 433: the button, enabled when nothing is missing; pdf_bytes = None.
ClickEvaluate ==
    /\ pc = "ready"
    /\ missing(cells, pdf_url, uploaded_pdf) = {}
    /\ pdf_bytes' = None
    /\ pdf_ref' = << >>
    /\ pc' = "acquire"
    /\ UNCHANGED << client, paste, manual_url, uploaded_pdf, cells, warnings, pdf_url,
                    url_in, url, napplied, response, fetched, full_text, discussion,
                    raw_resp, result, fetches, oracle_calls, steps, shown >>

\* The same step without st.stop() after a failed download.
AcquireWithoutStop(responses) ==
    /\ pc = "acquire"
    /\ steps' = Append(steps, "acquire")
    /\ \/ /\ uploaded_pdf # None
          /\ pdf_bytes' = uploaded_pdf
          /\ pdf_ref' = << "uploaded PDF" >>
          /\ shown' = Append(shown, [kind |-> "good", text |-> "uploaded"])
          /\ UNCHANGED << response, fetched, fetches >>
       \/ /\ uploaded_pdf = None
          /\ pdf_ref' = pdf_url
          /\ fetches' = Append(fetches, normalize_sharepoint_download_url(pdf_url))
          /\ \E r \in responses :
                 /\ response' = r
                 /\ fetched' = download_pdf_bytes(r)
                 /\ IF fetched'.kind = "return"
                    THEN /\ pdf_bytes' = fetched'.content
                         /\ shown' = Append(shown, [kind |-> "good",
                                                    text |-> "link download succeeded"])
                    ELSE /\ pdf_bytes' = pdf_bytes
                         /\ shown' = Append(shown, [kind |-> "bad",
                                                    text |-> "Could not download PDF from link."])
    /\ pc' = "extract"
    /\ UNCHANGED << client, paste, manual_url, uploaded_pdf, cells, warnings, pdf_url,
                    url_in, url, napplied, full_text, discussion, raw_resp, result,
                    oracle_calls >>

\* Lines 435-456: the upload when there is one, else one download, which
\* halts the evaluation when it raises.
Acquire(responses) ==
    /\ pc = "acquire"
    /\ steps' = Append(steps, "acquire")
    /\ \/ /\ uploaded_pdf # None
          /\ pdf_bytes' = uploaded_pdf
          /\ pdf_ref' = << "uploaded PDF" >>
          /\ shown' = Append(shown, [kind |-> "good", text |-> "uploaded"])
          /\ pc' = "extract"
          /\ UNCHANGED << response, fetched, fetches >>
       \/ /\ uploaded_pdf = None
          /\ pdf_ref' = pdf_url
          /\ fetches' = Append(fetches, normalize_sharepoint_download_url(pdf_url))
          /\ \E r \in responses :
                 /\ response' = r
                 /\ fetched' = download_pdf_bytes(r)
                 /\ IF fetched'.kind = "return"
                    THEN /\ pdf_bytes' = fetched'.content
                         /\ shown' = Append(shown, [kind |-> "good",
                                                    text |-> "link download succeeded"])
                         /\ pc' = "extract"
                    ELSE /\ pdf_bytes' = pdf_bytes
                         /\ shown' = Append(shown, [kind |-> "bad",
                                                    text |-> "Could not download PDF from link."])
                         /\ pc' = "stopped"
    /\ UNCHANGED << client, paste, manual_url, uploaded_pdf, cells, warnings, pdf_url,
                    url_in, url, napplied, full_text, discussion, raw_resp, result,
                    oracle_calls >>

\* Lines 458-468: the text is extracted (pdfplumber may raise on bytes that
\* are no PDF); a blank text halts the evaluation.
Extract(documents) ==
    /\ pc = "extract"
    /\ steps' = Append(steps, "extract")
    /\ \/ \E pages \in documents :
              /\ full_text' = extract_text_from_pdf(pages, MaxPages)
              /\ IF IsBlank(full_text')
                 THEN /\ shown' = Append(shown, [kind |-> "bad",
                                                 text |-> "Could not extract text from the PDF."])
                      /\ pc' = "stopped"
                 ELSE /\ shown' = shown
                      /\ pc' = "locate"
       \/ /\ pc' = "crashed"
          /\ UNCHANGED << full_text, shown >>
    /\ UNCHANGED << client, paste, manual_url, uploaded_pdf, cells, warnings, pdf_url,
                    url_in, url, napplied, response, fetched, pdf_bytes, pdf_ref,
                    discussion, raw_resp, result, fetches, oracle_calls >>

\* Lines 471-472.
Fallback ==
    /\ pc = "fallback"
    /\ discussion' = IF IsBlank(discussion) THEN Prefix(full_text, FallbackCap) ELSE discussion
    /\ pc' = "grade"
    /\ UNCHANGED << client, paste, manual_url, uploaded_pdf, cells, warnings, pdf_url,
                    url_in, url, napplied, response, fetched, pdf_bytes, pdf_ref,
                    full_text, raw_resp, result, fetches, oracle_calls, steps, shown >>

\* key in result, for a dict json.loads returned.
JsonHas(v, key) == \E k \in 1..Len(v.items) : v.items[k][1] = key

\* result[key]: the value of the last member with the key.
JsonGet(v, key) ==
    v.items[CHOOSE k \in 1..Len(v.items) :
                /\ v.items[k][1] = key
                /\ \A j \in (k + 1)..Len(v.items) : v.items[j][1] # key][2]

\* "error" in result (line 482), for a dict.
HasError(res) ==
    IF "json" \in DOMAIN res THEN JsonHas(res.json, S_error)
    ELSE "error" \in DOMAIN res

\* Lines 478-538: the heading, then the error (with the raw answer when the
\* record has one) or the judgment.  A value that is no dict makes line 482
\* or line 492 raise.  The judgments of the model hold texts where the page
\* expects texts.
Display ==
    /\ pc = "graded"
    /\ steps' = Append(steps, "display")
    /\ IF "json" \in DOMAIN result /\ result.json.t # "dict"
       THEN /\ shown' = Append(shown, [kind |-> "results", text |-> "Results"])
            /\ pc' = "crashed"
       ELSE IF HasError(result)
       THEN /\ shown' = shown \o
                   << [kind |-> "results", text |-> "Results"],
                      [kind |-> "bad",
                       text |-> IF "json" \in DOMAIN result
                                THEN JsonGet(result.json, S_error)
                                ELSE result.error] >> \o
                   (IF "json" \in DOMAIN result
                    THEN (IF JsonHas(result.json, S_raw)
                          THEN << [kind |-> "code", text |-> JsonGet(result.json, S_raw)] >>
                          ELSE << >>)
                    ELSE (IF "raw" \in DOMAIN result
                          THEN << [kind |-> "code", text |-> result.raw] >>
                          ELSE << >>))
            /\ pc' = "stopped"
       ELSE /\ shown' = shown \o
                   << [kind |-> "results", text |-> "Results"],
                      [kind |-> "judgment", text |-> result.json],
                      [kind |-> "excerpt", text |-> Prefix(discussion, SectionCap)] >>
            /\ pc' = "done"
    /\ UNCHANGED << client, paste, manual_url, uploaded_pdf, cells, warnings, pdf_url,
                    url_in, url, napplied, response, fetched, pdf_bytes, pdf_ref,
                    full_text, discussion, raw_resp, result, fetches, oracle_calls >>

NextEval ==
    \/ Script
    \/ ClickEvaluate
    \/ Acquire(EvalResponses)
    \/ Extract(EvalDocuments)
    \/ Locate
    \/ Fallback
    \/ Grade(EvalAnswers)
    \/ Display

SpecEval == InitEval /\ [][NextEval]_vars

\* The step has run in this evaluation.
Ran(step) == \E k \in 1..Len(steps) : steps[k] = step

\* The URL the three URL sources yield by the priority of the claim: the
\* override field, cell 6, the first URL of the paste; empty for none.
SourceByPriority ==
    IF looks_like_url(Strip(manual_url)) THEN Strip(manual_url)
    ELSE IF looks_like_url(cells[6]) THEN cells[6]
    ELSE find_first_url_anywhere(paste)

UsesUpload ==
    pdf_ref = << "uploaded PDF" >> /\ pdf_bytes = uploaded_pdf /\ fetches = << >>

UsesUrl(u) ==
    pdf_ref = u /\ fetches = << normalize_sharepoint_download_url(u) >>

ReachedExtraction == pc = "extract" \/ Ran("extract")

IsSuccessStatus(status) == status >= 200 /\ status < 300

\* C4 as stated: the body of a fetched document reaches text extraction if
\* and only if the status is 2xx and the body starts with %PDF or the
\* declared Content-Type contains "pdf"; for every other response the
\* download raises and the evaluation ends without extraction.
C4_ExtractionIffSuccessAndPdf ==
    fetches # << >> =>
        /\ ReachedExtraction <=>
               /\ ~response.raised
               /\ IsSuccessStatus(response.status)
               /\ \/ Prefix(response.content, 4) = << "%", "P", "D", "F" >>
                  \/ DeclaresPdf(response)
        /\ ~ReachedExtraction =>
               fetched.kind = "raise" /\ pc = "stopped" /\ steps = << "acquire" >>

\* What the code does: the same with "not 4xx or 5xx" for "2xx".
C4_ExtractionIffNoErrorStatusAndPdf ==
    fetches # << >> =>
        /\ ReachedExtraction <=>
               /\ ~response.raised
               /\ ~(response.status >= 400 /\ response.status < 600)
               /\ \/ Prefix(response.content, 4) = << "%", "P", "D", "F" >>
                  \/ DeclaresPdf(response)
        /\ ~ReachedExtraction =>
               fetched.kind = "raise" /\ pc = "stopped" /\ steps = << "acquire" >>

\* C6: for an extracted text without header line the function returns a
\* prefix of the text that is not empty and holds at most 18000 characters,
\* and every request to the oracle carries an excerpt that is not empty.
C6_HeaderlessGivesPrefix ==
    /\ (pc = "fallback" /\ HeaderStart(full_text) = 0) =>
           /\ discussion # << >>
           /\ Len(discussion) <= 18000
           /\ discussion = SubSeq(full_text, 1, Len(discussion))
    /\ \A k \in 1..Len(oracle_calls) : oracle_calls[k].discussion_excerpt # << >>

\* The oracle was asked about a text without header longer than the cut.
C6_Witness ==
    /\ oracle_calls # << >>
    /\ Len(full_text) > 18000
    /\ Len(discussion) = 18000
    /\ HeaderStart(full_text) = 0

StepOrder == << "acquire", "extract", "locate", "grade", "display" >>

FetchFailed == fetches # << >> /\ fetched.kind = "raise"

TextBlank == full_text # Idle /\ IsBlank(full_text)

JudgmentShown == \E k \in 1..Len(shown) : shown[k].kind = "judgment"

\* C8: the steps of an evaluation run in the order acquire, extract, locate,
\* call the oracle (then display), each at most once, with at most one fetch
\* and at most one oracle call; after a failed fetch or a blank text the
\* evaluation has halted at that step; the oracle is called and a judgment
\* displayed only when the document was obtained and its text is not blank.
C8_StepsInOrderThenHalt ==
    /\ Len(steps) <= Len(StepOrder)
    /\ steps = SubSeq(StepOrder, 1, Len(steps))
    /\ Len(fetches) <= 1
    /\ Len(oracle_calls) <= 1
    /\ FetchFailed => pc = "stopped" /\ steps = << "acquire" >>
    /\ TextBlank => pc = "stopped" /\ steps = << "acquire", "extract" >>
    /\ (oracle_calls # << >> \/ JudgmentShown) =>
           /\ Ran("acquire") /\ ~FetchFailed /\ pdf_bytes # None
           /\ Ran("extract") /\ full_text # Idle /\ ~IsBlank(full_text)
           /\ Ran("grade")
    /\ JudgmentShown => oracle_calls # << >>

\* Evaluations have halted at a failed fetch and at a blank text, and one has
\* displayed the judgment of the oracle.
C8_Witness ==
    /\ JudgmentShown
    /\ pc = "done"
    /\ fetches # << >>
    /\ steps = StepOrder

=============================================================================
